---- MODULE Spec2Model ----
(***************************************************************************)
(* Model of examples/pytorch-imagenet-onnx/training/train-with-pytorch     *)
(* .ipynb: a linear sequence of SDK calls against one Azure ML workspace.  *)
(* Several executions of the notebook (each with its own kernel namespace) *)
(* run against the same workspace; the workspace holds the compute target  *)
(* named "cpu-cluster".                                                    *)
(***************************************************************************)
EXTENDS Integers, Sequences, FiniteSets, TLC

\* Number of notebook executions that share the workspace.
NumExecs == 2

Execs == 1..NumExecs

cluster_name == "cpu-cluster"

\* AmlCompute.provisioning_configuration(vm_size=..., max_nodes=...)
max_nodes == 4
compute_config == [vm_size |-> "STANDARD_D3_V2", max_nodes |-> max_nodes]

\* PyTorch(source_directory, compute_target, entry_script, pip_packages): no
\* node_count is passed, the estimator describes a single-node job.
node_count == 1

\* Variant: the sweep is allowed one more concurrent run than the cluster
\* has nodes.
MaxConcurrentRunsAboveNodes == max_nodes + 1

\* HyperDriveConfig(..., max_total_runs=8, max_concurrent_runs=4)
max_concurrent_runs == 4

\* Nodes the sweep may occupy at once: one job of the estimator per
\* concurrent child run.
SweepNodeDemand == max_concurrent_runs * node_count

S(line, op, kind, reads, binds) ==
    [line |-> line, op |-> op, kind |-> kind, reads |-> reads, binds |-> binds]

\* The statements of the code cells, in cell order.  `line` is the line of
\* the notebook file, `reads` the names the statement evaluates and `binds`
\* the names it assigns.  The upload at line 109 is a comment and therefore
\* not a statement.
Notebook == <<
    S( 84, "Workspace.from_config",          "stmt",   {}, {"ws"}),
    S(106, "get_default_datastore",          "stmt",   {"ws"}, {"data_dir"}),
    S(133, "ComputeTarget",                  "lookup", {"ws"}, {"compute_target"}),
    S(140, "ComputeTarget.create",           "create", {"ws"}, {"compute_target"}),
    S(142, "wait_for_completion",            "wait",   {"compute_target"}, {}),
    S(173, "os.makedirs",                    "stmt",   {}, {"script_folder"}),
    S(214, "shutil.copy",                    "stmt",   {"script_folder"}, {}),
    S(238, "PyTorch",                        "stmt",   {"script_folder", "compute_target"}, {"est"}),
    S(252, "PipelineData",                   "stmt",   {"data_dir"}, {"output"}),
    S(254, "DataReference",                  "stmt",   {"data_dir"}, {"input_data"}),
    S(297, "RandomParameterSampling",        "stmt",   {}, {"param_sampling"}),
    S(303, "BanditPolicy",                   "stmt",   {}, {"early_termination_policy"}),
    S(305, "HyperDriveConfig",               "stmt",   {"est", "param_sampling", "early_termination_policy"}, {"hd_config"}),
    S(334, "PipelineData",                   "stmt",   {"data_dir"}, {"metrics_output_name", "metrics_data"}),
    S(339, "HyperDriveStep",                 "stmt",   {"hd_config", "input_data", "metrics_data"}, {"hd_step_name", "hd_step"}),
    S(362, "Experiment",                     "stmt",   {"ws"}, {"exp"}),
    S(363, "Pipeline",                       "stmt",   {"ws", "hd_step"}, {"pipeline1"}),
    S(364, "Experiment.submit",              "stmt",   {"exp", "pipeline"}, {"pipeline_run"}),
    S(381, "find_step_run",                  "stmt",   {"pipeline_run", "hd_step_name"}, {"hd_step_run"}),
    S(382, "get_best_run_by_primary_metric", "stmt",   {"hd_step_run"}, {"best_run"}),
    S(403, "download_file",                  "stmt",   {"best_run"}, {}),
    S(405, "torch.load",                     "stmt",   {}, {"best_run_model"}),
    S(420, "torch.randn",                    "stmt",   {}, {"dummy_input"}),
    S(423, "torch.onnx.export",              "stmt",   {"best_run_model", "dummy_input"}, {}),
    S(435, "onnx.load",                      "stmt",   {}, {"onnx_model"}),
    S(438, "onnx.checker.check_model",       "stmt",   {"onnx_model"}, {}),
    S(450, "Model.register",                 "stmt",   {"ws"}, {"model"}) >>

Last == Len(Notebook)

\* Position of the first statement with the given operation name.
At(op) == CHOOSE i \in 1..Last : Notebook[i].op = op /\ \A j \in 1..(i-1) : Notebook[j].op # op

VARIABLES
    cluster,    \* workspace: state of the compute target named cluster_name
    pc,         \* pc[e]: index in Notebook of the next statement of execution e
    status,     \* status[e]: "running", "failed" (an exception propagated) or "done"
    ns,         \* ns[e]: names bound in the kernel namespace of execution e
    calls,      \* calls[e]: the statements execution e has evaluated, with their outcome
    requests    \* requests[e]: provisioning requests execution e sent to the workspace

vars == <<cluster, pc, status, ns, calls, requests>>

Init ==
    /\ cluster \in {"absent", "ready"}
    /\ pc = [e \in Execs |-> 1]
    /\ status = [e \in Execs |-> "running"]
    /\ ns = [e \in Execs |-> {}]
    /\ calls = [e \in Execs |-> << >>]
    /\ requests = [e \in Execs |-> << >>]

Stmt(e) == Notebook[pc[e]]

Ready(e, kind) ==
    /\ status[e] = "running"
    /\ pc[e] <= Last
    /\ Stmt(e).kind = kind
    /\ Stmt(e).reads \subseteq ns[e]

Entry(e, outcome) == [line |-> Stmt(e).line, op |-> Stmt(e).op, outcome |-> outcome]

Logged(e, outcome) == calls' = [calls EXCEPT ![e] = Append(@, Entry(e, outcome))]

StatusAt(p) == IF p > Last THEN "done" ELSE "running"

\* The statement returns: its names are bound and control moves to position p.
Returns(e, p) ==
    /\ Logged(e, "returned")
    /\ ns' = [ns EXCEPT ![e] = @ \cup Stmt(e).binds]
    /\ pc' = [pc EXCEPT ![e] = p]
    /\ status' = [status EXCEPT ![e] = StatusAt(p)]

\* The first statement of the except body.
ExceptBody == At("ComputeTarget.create")

\* The submission statement, exp.submit(pipeline).
Submit == At("Experiment.submit")

\* Variant: a bare except clause around the lookup.
ExceptHandlerCatchesAll(kind, exc) ==
    IF kind = "lookup" THEN "caught" ELSE "propagates"

\* try: ... except ComputeTargetException: the try body is the lookup only.
ExceptHandler(kind, exc) ==
    IF kind = "lookup" /\ exc = "ComputeTargetException" THEN "caught" ELSE "propagates"

\* The statement raises exc: the handler body is entered, or the exception
\* propagates and the execution stops.
Throws(e, exc) ==
    /\ Logged(e, exc)
    /\ ns' = ns
    /\ IF ExceptHandler(Stmt(e).kind, exc) = "caught"
       THEN /\ pc' = [pc EXCEPT ![e] = ExceptBody]
            /\ status' = status
       ELSE /\ pc' = pc
            /\ status' = [status EXCEPT ![e] = "failed"]

\* ComputeTarget(workspace=ws, name=cluster_name): the by-name lookup.
LookupTarget(c) == IF c = "absent" THEN "ComputeTargetException" ELSE "returned"

\* Variant: the except body is not skipped when the lookup succeeds.
AfterTryFallsThrough == ExceptBody

\* Where control goes when the try body completed: past the except body.
AfterTry == At("wait_for_completion") + 1

\* Variant: the except body ends with the create call, without the wait.
AfterCreateSkipsWait == At("wait_for_completion") + 1

\* Where control goes when ComputeTarget.create returned: the wait call.
AfterCreate == At("wait_for_completion")

Lookup(e) ==
    /\ Ready(e, "lookup")
    /\ IF LookupTarget(cluster) = "returned"
       THEN Returns(e, AfterTry)
       ELSE Throws(e, LookupTarget(cluster))
    /\ UNCHANGED <<cluster, requests>>

\* ComputeTarget.create(ws, cluster_name, compute_config): the workspace
\* receives the request; for a name that already exists the platform either
\* hands back the existing target or rejects the request.
Create(e) ==
    /\ Ready(e, "create")
    /\ requests' = [requests EXCEPT ![e] =
           Append(@, [name |-> cluster_name, config |-> compute_config, saw |-> cluster])]
    /\ \/ /\ cluster' = IF cluster = "absent" THEN "creating" ELSE cluster
          /\ Returns(e, AfterCreate)
       \/ /\ cluster # "absent"
          /\ cluster' = cluster
          /\ Throws(e, "ComputeTargetException")

\* compute_target.wait_for_completion(show_output=True) returns once the
\* target is provisioned.
WaitForCompletion(e) ==
    /\ Ready(e, "wait")
    /\ cluster = "ready"
    /\ Returns(e, pc[e] + 1)
    /\ UNCHANGED <<cluster, requests>>

\* Any other statement whose names are bound.
Step(e) ==
    /\ Ready(e, "stmt")
    /\ Returns(e, pc[e] + 1)
    /\ UNCHANGED <<cluster, requests>>

\* A statement that evaluates a name the kernel has not bound.
NameError(e) ==
    /\ status[e] = "running"
    /\ pc[e] <= Last
    /\ ~ (Stmt(e).reads \subseteq ns[e])
    /\ Throws(e, "NameError")
    /\ UNCHANGED <<cluster, requests>>

\* A call fails in the SDK or on the platform.
Raise(e) ==
    /\ status[e] = "running"
    /\ pc[e] <= Last
    /\ Stmt(e).reads \subseteq ns[e]
    /\ Throws(e, "PlatformError")
    /\ UNCHANGED <<cluster, requests>>

\* The workspace finishes provisioning the cluster.
ProvisioningCompletes ==
    /\ cluster = "creating"
    /\ cluster' = "ready"
    /\ UNCHANGED <<pc, status, ns, calls, requests>>

Next ==
    \/ \E e \in Execs : Step(e)
    \/ \E e \in Execs : Lookup(e)
    \/ \E e \in Execs : Create(e)
    \/ \E e \in Execs : WaitForCompletion(e)
    \/ \E e \in Execs : NameError(e)
    \/ \E e \in Execs : Raise(e)
    \/ ProvisioningCompletes

Spec == Init /\ [][Next]_vars

TypeOK ==
    /\ cluster \in {"absent", "creating", "ready"}
    /\ pc \in [Execs -> 1..(Last + 1)]
    /\ status \in [Execs -> {"running", "failed", "done"}]
    /\ \A e \in Execs : Len(requests[e]) <= Len(calls[e])

(***************************************************************************)
(* Properties                                                              *)
(***************************************************************************)
Idx(e) == 1..Len(calls[e])

Has(e, op, outcome) == \E i \in Idx(e) : calls[e][i].op = op /\ calls[e][i].outcome = outcome

LookupFound(e)  == Has(e, "ComputeTarget", "returned")
LookupAbsent(e) == Has(e, "ComputeTarget", "ComputeTargetException")

RequestIds == UNION {{<<e, i>> : i \in 1..Len(requests[e])} : e \in Execs}

\* C1 (as stated): every provisioning request reaches the workspace while no
\* target named "cpu-cluster" exists, and at most one request is ever issued
\* for that name, also when executions overlap.
C1_CreateOnlyIfAbsent ==
    /\ \A id \in RequestIds : requests[id[1]][id[2]].saw = "absent"
    /\ Cardinality(RequestIds) <= 1

\* C1 (amended): an execution issues a provisioning request only after its
\* own by-name lookup raised ComputeTargetException, and issues at most one;
\* the target may have appeared between that lookup and the request.
C1_CreateOnlyAfterOwnLookupAbsent ==
    \A e \in Execs :
        /\ Len(requests[e]) <= 1
        /\ Len(requests[e]) = 1 => LookupAbsent(e) /\ ~ LookupFound(e)

\* Two overlapping executions have each sent a provisioning request.
C1_Witness ==
    \E e1, e2 \in Execs : e1 # e2 /\ Len(requests[e1]) = 1 /\ Len(requests[e2]) = 1

\* No execution gets past the submission statement: the name `pipeline` is
\* bound by no cell, so nothing after line 364 is ever evaluated.
NeverPastSubmit ==
    \A e \in Execs :
        /\ pc[e] <= Submit
        /\ status[e] # "done"
        /\ "pipeline" \notin ns[e]
        /\ "pipeline_run" \notin ns[e]

PlatformFailure(e) ==
    \E i \in Idx(e) :
        \/ calls[e][i].outcome = "PlatformError"
        \/ calls[e][i].op = "ComputeTarget.create" /\ calls[e][i].outcome # "returned"

\* C3: an in-order execution in which every platform call succeeded has
\* submitted the pipeline built from the sweep step, obtained a run handle
\* and gone on to register the model; it stops only when that is done.
C3_RunsThroughToRegistration ==
    \A e \in Execs :
        (status[e] # "running" /\ ~ PlatformFailure(e)) =>
            /\ status[e] = "done"
            /\ Has(e, "Experiment.submit", "returned")
            /\ "pipeline_run" \in ns[e]
            /\ Has(e, "Model.register", "returned")

\* C4: the only exception that is caught is the ComputeTargetException of
\* the by-name lookup; any other exception is the last thing its execution
\* does: the execution has failed at that statement and nothing follows it.
C4_OnlyLookupNotFoundIsCaught ==
    \A e \in Execs : \A i \in Idx(e) :
        calls[e][i].outcome # "returned" =>
            \/ /\ calls[e][i].line = 133
               /\ calls[e][i].outcome = "ComputeTargetException"
            \/ /\ i = Len(calls[e])
               /\ status[e] = "failed"
               /\ Notebook[pc[e]].line = calls[e][i].line

\* An execution stopped at a ComputeTargetException raised by
\* ComputeTarget.create, inside the except body.
C4_Witness ==
    \E e \in Execs :
        /\ status[e] = "failed"
        /\ LookupAbsent(e)
        /\ calls[e][Len(calls[e])].op = "ComputeTarget.create"
        /\ calls[e][Len(calls[e])].outcome = "ComputeTargetException"

\* C5: by the time an execution is at the submission statement it has
\* uploaded the training data to the default datastore.
C5_UploadBeforeSubmit ==
    \A e \in Execs :
        pc[e] >= Submit => Has(e, "Datastore.upload", "returned")

UsesComputeTarget(line) ==
    \E k \in 1..Last :
        /\ Notebook[k].line = line
        /\ k >= AfterTry
        /\ "compute_target" \in Notebook[k].reads

\* C10: the compute-target cell has two branches.  Lookup succeeded: no
\* provisioning request, no create and no wait, the found target is bound.
\* Lookup raised ComputeTargetException: at most one request, with vm_size
\* STANDARD_D3_V2 and max_nodes 4; the cell is left, and compute_target is
\* used by a later statement, only after wait_for_completion returned, the
\* cluster being provisioned by then.  A completed cell has bound
\* compute_target.
C10_TwoBranchExistenceCheck ==
    \A e \in Execs :
        /\ LookupFound(e) =>
              /\ requests[e] = << >>
              /\ \A i \in Idx(e) : calls[e][i].op \notin {"ComputeTarget.create", "wait_for_completion"}
              /\ "compute_target" \in ns[e]
              /\ pc[e] >= AfterTry
        /\ LookupAbsent(e) =>
              /\ Len(requests[e]) <= 1
              /\ \A i \in 1..Len(requests[e]) :
                    /\ requests[e][i].name = "cpu-cluster"
                    /\ requests[e][i].config = [vm_size |-> "STANDARD_D3_V2", max_nodes |-> 4]
              /\ pc[e] >= AfterTry =>
                    /\ Len(requests[e]) = 1
                    /\ Has(e, "ComputeTarget.create", "returned")
                    /\ Has(e, "wait_for_completion", "returned")
                    /\ cluster = "ready"
              /\ \A i \in Idx(e) :
                    UsesComputeTarget(calls[e][i].line) =>
                        \E j \in 1..(i-1) :
                            /\ calls[e][j].op = "wait_for_completion"
                            /\ calls[e][j].outcome = "returned"
        /\ pc[e] >= AfterTry => "compute_target" \in ns[e]

\* One execution found the target and built the estimator without a
\* request; another provisioned the cluster, waited and built the estimator.
C10_Witness ==
    \E e1, e2 \in Execs :
        /\ LookupFound(e1) /\ Has(e1, "PyTorch", "returned")
        /\ LookupAbsent(e2) /\ Has(e2, "wait_for_completion", "returned")
        /\ Has(e2, "PyTorch", "returned")

\* C11: the sweep's concurrency cap fits the cluster this notebook
\* provisions: for an execution that sent the provisioning request and has
\* built the sweep configuration on the estimator bound to that target, the
\* nodes its concurrent child runs may occupy (max_concurrent_runs runs of
\* node_count nodes each) are at most the max_nodes of the request.
C11_SweepFitsProvisionedCluster ==
    \A e \in Execs :
        (Has(e, "HyperDriveConfig", "returned") /\ Len(requests[e]) >= 1) =>
            /\ {"est", "compute_target", "hd_config"} \subseteq ns[e]
            /\ \A i \in 1..Len(requests[e]) :
                  /\ requests[e][i].name = cluster_name
                  /\ SweepNodeDemand <= requests[e][i].config.max_nodes
                  /\ max_concurrent_runs <= requests[e][i].config.max_nodes

\* An execution provisioned the cluster itself (the name was absent when the
\* request arrived), waited for it and built the sweep configuration.
C11_Witness ==
    \E e \in Execs :
        /\ Len(requests[e]) = 1
        /\ requests[e][1].saw = "absent"
        /\ Has(e, "wait_for_completion", "returned")
        /\ Has(e, "HyperDriveConfig", "returned")
        /\ "hd_config" \in ns[e]
====
